---------------------------- MODULE Spec2Model ----------------------------
(***************************************************************************)
(* Pilott Date Editor: the flexibility-window rule, the coherence          *)
(* validator, the HR-XML reader and the two packet writers, and the        *)
(* Streamlit session (load, edit, generate, reset) that drives them.       *)
(*                                                                         *)
(* A calendar date is an integer: the number of days since 2024-01-01.     *)
(* An optional value (Python's None) is the empty tuple <<>>, a present    *)
(* value v is <<v>>.  A date text "YYYY-MM-DD" is the tuple <<y, m, d>>.   *)
(***************************************************************************)
EXTENDS Integers, Sequences, FiniteSets, TLC

VARIABLES
    contracts,        \* st.session_state.contracts: the stored ContractData
    messages,         \* st.session_state.messages: the log
    generated_files,  \* the packets written by the last run of main()
    call              \* the last direct call of a library function

vars == <<contracts, messages, generated_files, call>>

-----------------------------------------------------------------------------
(* Bounds of the model *)

\* last day (counted from 2024-01-01) that a document or a widget supplies
MaxDay == 12
\* last day of the inputs of the direct calls of calc_flex_range
MaxFlexDay == 56
\* the log is capped at this many messages
MaxMessages == 3

\* the date widgets supply every DayStep-th day
DayStep == 3

Days == 0..MaxDay
WidgetDays == {d \in Days : d % DayStep = 0}
FlexDays == 0..MaxFlexDay

None == <<>>
Some(v) == <<v>>
OptDays == {None} \cup {Some(d) : d \in Days}
OptWidgetDays == {None} \cup {Some(d) : d \in WidgetDays}

Min(a, b) == IF a <= b THEN a ELSE b
Max(a, b) == IF a >= b THEN a ELSE b

-----------------------------------------------------------------------------
(* constants.py *)

MAX_FLEXIBILITY_DAYS == 10
FLEXIBILITY_DIVISOR == 5
ACTION_REASON_CODE_FLEXIBILITY == "PilOTT:FlexibilityUseDate"
ACTION_TYPE_DELETE == "delete"
PROCESS_STATUS_UPDATE == "update"
ASSIGNMENT_STATUS_ACTIVE == "active"

ERROR_MESSAGES ==
    [invalid_actual_end |->
        "La date de fin reelle doit etre <= a la date de flexibilite maximale",
     invalid_file_format |->
        "Format de fichier invalide. Attendu: ASS_*_A_ETT.xml",
     parsing_error |-> "Erreur lors de l'analyse du fichier XML",
     validation_error |-> "Le fichier XML ne respecte pas le schema XSD"]

MSG_START_AFTER_END ==
    "La date de debut doit etre anterieure a la date de fin prevue"
MSG_ACTUAL_BEFORE_START ==
    "La date de fin reelle ne peut pas etre anterieure au debut de mission"
MSG_FLEX_USE_RANGE == "La date de souplesse doit etre entre"

-----------------------------------------------------------------------------
(* date_calc.py: the calendar.  datetime.date arithmetic is arithmetic on   *)
(* day numbers; strftime/strptime convert between a day number and the     *)
(* civil date <<y, m, d>> of the proleptic Gregorian calendar.             *)

IsLeap(y) == (y % 4 = 0) /\ ((y % 100 # 0) \/ (y % 400 = 0))

DaysInMonth(y, m) ==
    IF m = 2 THEN (IF IsLeap(y) THEN 29 ELSE 28)
    ELSE IF m \in {4, 6, 9, 11} THEN 30 ELSE 31

\* date.strftime('%Y-%m-%d'): day number -> <<y, m, d>>
format_date(date_obj) ==
    LET z   == date_obj + 19723 + 719468
        era == z \div 146097
        doe == z - era * 146097
        yoe == (doe - doe \div 1460 + doe \div 36524 - doe \div 146096) \div 365
        doy == doe - (365 * yoe + yoe \div 4 - yoe \div 100)
        mp  == (5 * doy + 2) \div 153
        d   == doy - (153 * mp + 2) \div 5 + 1
        m   == IF mp < 10 THEN mp + 3 ELSE mp - 9
        y   == yoe + era * 400 + (IF m <= 2 THEN 1 ELSE 0)
    IN  <<y, m, d>>

\* whether strptime(date_str, '%Y-%m-%d') accepts the text
IsDateText(date_str) ==
    /\ Len(date_str) = 3
    /\ date_str[1] \in 1..9999
    /\ date_str[2] \in 1..12
    /\ date_str[3] \in 1..DaysInMonth(date_str[1], date_str[2])

\* datetime.strptime(date_str, '%Y-%m-%d').date(): <<y, m, d>> -> day number
\* (defined on the texts IsDateText accepts; strptime raises on the others)
parse_date(date_str) ==
    LET y0  == date_str[1] - (IF date_str[2] <= 2 THEN 1 ELSE 0)
        era == y0 \div 400
        yoe == y0 - era * 400
        mp  == IF date_str[2] > 2 THEN date_str[2] - 3 ELSE date_str[2] + 9
        doy == (153 * mp + 2) \div 5 + date_str[3] - 1
        doe == yoe * 365 + yoe \div 4 - yoe \div 100 + doy
    IN  era * 146097 + doe - 719468 - 19723

-----------------------------------------------------------------------------
(* date_calc.py: the rule engine *)

\* calc_flex_range without the ceiling of MAX_FLEXIBILITY_DAYS
calc_flex_range_no_ceiling(start, expected_end) ==
    LET duration  == (expected_end - start) + 1
        flex_days == Max(1, duration \div FLEXIBILITY_DIVISOR)
    IN  <<expected_end - flex_days, expected_end + flex_days, flex_days>>

\* calc_flex_range without the floor of one day
calc_flex_range_no_floor(start, expected_end) ==
    LET duration  == (expected_end - start) + 1
        flex_days == Min(MAX_FLEXIBILITY_DAYS, duration \div FLEXIBILITY_DIVISOR)
    IN  <<expected_end - flex_days, expected_end + flex_days, flex_days>>

\* (flex_min, flex_max, flex_days)
calc_flex_range(start, expected_end) ==
    LET duration  == (expected_end - start) + 1
        flex_days == Min(MAX_FLEXIBILITY_DAYS,
                         Max(1, duration \div FLEXIBILITY_DIVISOR))
        flex_min  == expected_end - flex_days
        flex_max  == expected_end + flex_days
    IN  <<flex_min, flex_max, flex_days>>

validate_actual_end_date(actual_end, flex_max) == actual_end <= flex_max

calculate_duration(start_date, end_date) == (end_date - start_date) + 1

\* validate_date_coherence testing the flexibility-use date before the
\* actual end date
validate_date_coherence_use_first(start_date, expected_end_date, actual_end_date, flexibility_use_date) ==
    LET flex == calc_flex_range(start_date, expected_end_date)
    IN  IF start_date > expected_end_date
          THEN <<FALSE, <<MSG_START_AFTER_END>>>>
        ELSE IF /\ flexibility_use_date # None
                /\ \/ flexibility_use_date[1] < flex[1]
                   \/ flexibility_use_date[1] > flex[2]
          THEN <<FALSE, <<MSG_FLEX_USE_RANGE, flex[1], flex[2]>>>>
        ELSE IF /\ actual_end_date # None
                /\ ~validate_actual_end_date(actual_end_date[1], flex[2])
          THEN <<FALSE, <<ERROR_MESSAGES.invalid_actual_end>>>>
        ELSE IF actual_end_date # None /\ actual_end_date[1] < start_date
          THEN <<FALSE, <<MSG_ACTUAL_BEFORE_START>>>>
        ELSE <<TRUE, None>>

\* (valid, message); the message of a valid result is None
validate_date_coherence(start_date, expected_end_date, actual_end_date, flexibility_use_date) ==
    LET flex == calc_flex_range(start_date, expected_end_date)
    IN  IF start_date > expected_end_date
          THEN <<FALSE, <<MSG_START_AFTER_END>>>>
        ELSE IF /\ actual_end_date # None
                /\ ~validate_actual_end_date(actual_end_date[1], flex[2])
          THEN <<FALSE, <<ERROR_MESSAGES.invalid_actual_end>>>>
        ELSE IF actual_end_date # None /\ actual_end_date[1] < start_date
          THEN <<FALSE, <<MSG_ACTUAL_BEFORE_START>>>>
        ELSE IF /\ flexibility_use_date # None
                /\ \/ flexibility_use_date[1] < flex[1]
                   \/ flexibility_use_date[1] > flex[2]
          THEN <<FALSE, <<MSG_FLEX_USE_RANGE, flex[1], flex[2]>>>>
        ELSE <<TRUE, None>>

\* app.py's copy: no flexibility-use date
app_validate_date_coherence(start_date, expected_end_date, actual_end_date) ==
    IF start_date > expected_end_date
      THEN <<FALSE, <<MSG_START_AFTER_END>>>>
    ELSE IF actual_end_date # None
      THEN LET flex == calc_flex_range(start_date, expected_end_date)
           IN  IF actual_end_date[1] > flex[2]
                 THEN <<FALSE, <<ERROR_MESSAGES.invalid_actual_end>>>>
               ELSE IF actual_end_date[1] < start_date
                 THEN <<FALSE, <<MSG_ACTUAL_BEFORE_START>>>>
               ELSE <<TRUE, None>>
    ELSE <<TRUE, None>>

-----------------------------------------------------------------------------
(* xml_utils.py / app.py: element trees.                                   *)
(*                                                                         *)
(* A text is a tuple: <<>> is no text (None or ""), <<"A1">> a word,       *)
(* <<y, m, d>> a date text.  The children of a date-range block are a      *)
(* sequence of <<tag, text>> in document order.  A document is             *)
(*   [wellformed, assignments], each assignment                            *)
(*   [ns, AssignmentId, StaffingSupplierId, AssignmentDateRange],          *)
(* where ns is the namespace URI of the element and of the elements under  *)
(* it, an absent element is None and a present one holds its text (its     *)
(* children, for the date-range block).  An identifier written as a value  *)
(* node under AssignmentId is the field IdValue, AssignmentId then having  *)
(* no text of its own.                                                     *)

\* NAMESPACES['hr']: the one namespace the lookups of the reader resolve
\* the prefix hr to
NAMESPACES_hr == "http://www.hr-xml.org/3"

TAG_START == "{http://www.hr-xml.org/3}StartDate"
TAG_EXPECTED_END == "{http://www.hr-xml.org/3}ExpectedEndDate"
TAG_ACTUAL_END == "{http://www.hr-xml.org/3}ActualEndDate"
TAG_FLEX_MIN == "{http://www.hr-xml.org/3}FlexibilityMinDate"
TAG_FLEX_MAX == "{http://www.hr-xml.org/3}FlexibilityMaxDate"

\* Element.find(tag): the index of the first child with that tag, 0 if none
find(children, tag) ==
    IF \E i \in 1..Len(children) : children[i][1] = tag
      THEN CHOOSE i \in 1..Len(children) :
               /\ children[i][1] = tag
               /\ \A j \in 1..(i - 1) : children[j][1] # tag
      ELSE 0

\* the text of the first child with that tag; <<>> when the element is
\* missing or has no text (the code tests "elem is not None and elem.text")
find_text(children, tag) ==
    IF find(children, tag) = 0 THEN <<>> ELSE children[find(children, tag)][2]

\* root.find('.//hr:Assignment', NAMESPACES): the first Assignment element
\* of the hr namespace, None if there is none
find_assignment(root) ==
    LET has == {i \in 1..Len(root.assignments) :
                   root.assignments[i].ns = NAMESPACES_hr}
    IN  IF has = {} THEN None
        ELSE Some(root.assignments[CHOOSE i \in has : \A j \in has : i <= j])

\* root.find('.//hr:AssignmentDateRange', NAMESPACES): the first date-range
\* block of the hr namespace in the document, None if there is none
find_date_range(root) ==
    LET has == {i \in 1..Len(root.assignments) :
                   /\ root.assignments[i].ns = NAMESPACES_hr
                   /\ root.assignments[i].AssignmentDateRange # None}
    IN  IF has = {} THEN None
        ELSE root.assignments[CHOOSE i \in has : \A j \in has : i <= j]
                 .AssignmentDateRange

\* class ContractData, as parse_contract_xml fills it
ContractData(filename, root, assignment_id, staffing_supplier_id, start_date, expected_end_date, actual_end_date, flex_min_date, flex_max_date) ==
    [assignment_id |-> assignment_id,
     staffing_supplier_id |-> staffing_supplier_id,
     start_date |-> start_date,
     expected_end_date |-> expected_end_date,
     actual_end_date |-> actual_end_date,
     flex_min_date |-> flex_min_date,
     flex_max_date |-> flex_max_date,
     original_tree |-> root,
     filename |-> filename]

\* a date field of the record: None when the element is missing or empty
date_field(children, tag) ==
    IF find_text(children, tag) = <<>> THEN None
    ELSE Some(parse_date(find_text(children, tag)))

\* the flexibility dates of a parsed record: (flex_min_date, flex_max_date)
parsed_flex(start_date, expected_end_date, flex_min_date, flex_max_date) ==
    IF /\ start_date # None /\ expected_end_date # None
       /\ (flex_min_date = None \/ flex_max_date = None)
      THEN <<Some(calc_flex_range(start_date[1], expected_end_date[1])[1]),
             Some(calc_flex_range(start_date[1], expected_end_date[1])[2])>>
      ELSE <<flex_min_date, flex_max_date>>

\* parse_contract_xml: [ok |-> TRUE, contract |-> ContractData], or
\* [ok |-> FALSE, error |-> text] when it raises ValueError
parse_contract_xml(xml_content, filename) ==
    LET root       == xml_content
        assignment == find_assignment(root)
        date_range == find_date_range(root)
        children   == IF date_range = None THEN <<>> ELSE date_range[1]
        date_tags  == {TAG_START, TAG_EXPECTED_END, TAG_ACTUAL_END,
                       TAG_FLEX_MIN, TAG_FLEX_MAX}
        assignment_id ==
            IF assignment # None /\ assignment[1].AssignmentId # None
              THEN assignment[1].AssignmentId[1] ELSE <<>>
        staffing_supplier_id ==
            IF assignment # None /\ assignment[1].StaffingSupplierId # None
              THEN assignment[1].StaffingSupplierId[1] ELSE <<>>
        start_date        == date_field(children, TAG_START)
        expected_end_date == date_field(children, TAG_EXPECTED_END)
        actual_end_date   == date_field(children, TAG_ACTUAL_END)
        flex == parsed_flex(start_date, expected_end_date,
                            date_field(children, TAG_FLEX_MIN),
                            date_field(children, TAG_FLEX_MAX))
    IN  IF ~root.wellformed
          THEN [ok |-> FALSE, error |-> <<ERROR_MESSAGES.parsing_error, "ParseError">>]
        ELSE IF \E tag \in date_tags :
                   /\ find_text(children, tag) # <<>>
                   /\ ~IsDateText(find_text(children, tag))
          THEN [ok |-> FALSE, error |-> <<ERROR_MESSAGES.parsing_error, "ValueError">>]
        ELSE [ok |-> TRUE,
              contract |-> ContractData(filename, root, assignment_id,
                               staffing_supplier_id, start_date,
                               expected_end_date, actual_end_date,
                               flex[1], flex[2])]

\* the envelope header; the transaction id (uuid4) and the timestamp (utcnow)
\* are opaque values
Header == [TransactId |-> <<"uuid4">>, TimeStamp |-> <<"utcnow">>]

\* the attributes the packet writers set on the root element, one per prefix
\* of NAMESPACES: root.set(f'xmlns:{prefix}', uri)
ROOT_XMLNS == <<"xmlns:hr", "xmlns:oa", "xmlns:xsi">>

\* au_date_range writing the ActualEndDate element whether or not the record
\* has an actual end date
au_date_range_always_actual(contract) ==
    <<<<TAG_START, format_date(contract.start_date[1])>>,
      <<TAG_EXPECTED_END, format_date(contract.expected_end_date[1])>>,
      <<TAG_ACTUAL_END,
        IF contract.actual_end_date # None
          THEN format_date(contract.actual_end_date[1]) ELSE <<>>>>,
      <<TAG_FLEX_MIN, format_date(contract.flex_min_date[1])>>,
      <<TAG_FLEX_MAX, format_date(contract.flex_max_date[1])>>>>

\* the children of the date-range block of an update packet
au_date_range(contract) ==
    <<<<TAG_START, format_date(contract.start_date[1])>>,
      <<TAG_EXPECTED_END, format_date(contract.expected_end_date[1])>>>>
    \o (IF contract.actual_end_date # None
          THEN <<<<TAG_ACTUAL_END, format_date(contract.actual_end_date[1])>>>>
          ELSE <<>>)
    \o <<<<TAG_FLEX_MIN, format_date(contract.flex_min_date[1])>>,
         <<TAG_FLEX_MAX, format_date(contract.flex_max_date[1])>>>>

\* build_au_packet (format_date raises on a record without its four dates)
build_au_packet(contract) ==
    [attrib |-> ROOT_XMLNS,
     Header |-> Header,
     Body |-> [Assignment |->
        [processStatus |-> PROCESS_STATUS_UPDATE,
         assignmentStatus |-> ASSIGNMENT_STATUS_ACTIVE,
         AssignmentId |-> contract.assignment_id,
         StaffingSupplierId |-> contract.staffing_supplier_id,
         AssignmentDateRange |-> au_date_range(contract)]]]

\* build_staffing_action taking a missing date, not the flag, for a deletion
build_staffing_action_by_absence(contract, flexibility_date, delete) ==
    [attrib |-> ROOT_XMLNS,
     Header |-> Header,
     Body |-> [StaffingAction |->
        [AssignmentId |-> contract.assignment_id,
         ActionReasonCode |-> ACTION_REASON_CODE_FLEXIBILITY,
         ActionTypeComments |->
            IF flexibility_date = None THEN <<"delete">>
            ELSE flexibility_date[1]]]]

\* build_staffing_action; flexibility_date is an optional date text
build_staffing_action(contract, flexibility_date, delete) ==
    [attrib |-> ROOT_XMLNS,
     Header |-> Header,
     Body |-> [StaffingAction |->
        [AssignmentId |-> contract.assignment_id,
         ActionReasonCode |-> ACTION_REASON_CODE_FLEXIBILITY,
         ActionTypeComments |->
            IF delete THEN <<"delete">>
            ELSE IF flexibility_date = None THEN <<>>
            ELSE flexibility_date[1]]]]

\* what find(tag, NAMESPACES) looks for: the prefix hr replaced by its URI
resolve(tag) ==
    CASE tag = "hr:StartDate"          -> TAG_START
      [] tag = "hr:ExpectedEndDate"    -> TAG_EXPECTED_END
      [] tag = "hr:ActualEndDate"      -> TAG_ACTUAL_END
      [] tag = "hr:FlexibilityMinDate" -> TAG_FLEX_MIN
      [] tag = "hr:FlexibilityMaxDate" -> TAG_FLEX_MAX

\* _update_or_create_date_elem: the children of parent afterwards.  The
\* element is looked up under its qualified name; a new one is made by
\* ET.SubElement(parent, tag), whose tag is the prefixed name as written.
update_or_create_date_elem(parent, tag, value) ==
    IF find(parent, resolve(tag)) # 0
      THEN [parent EXCEPT ![find(parent, resolve(tag))] = <<resolve(tag), value>>]
      ELSE Append(parent, <<tag, value>>)

\* the place of the block find_date_range returns, 0 if there is none
date_range_index(root) ==
    LET has == {i \in 1..Len(root.assignments) :
                   /\ root.assignments[i].ns = NAMESPACES_hr
                   /\ root.assignments[i].AssignmentDateRange # None}
    IN  IF has = {} THEN 0 ELSE CHOOSE i \in has : \A j \in has : i <= j

\* update_contract_dates: the record with its tree patched (format_date
\* raises on a record without its four dates)
update_contract_dates(contract) ==
    LET root   == contract.original_tree
        idx    == date_range_index(root)
        block  == root.assignments[idx].AssignmentDateRange[1]
        start  == update_or_create_date_elem(block, "hr:StartDate",
                      format_date(contract.start_date[1]))
        expect == update_or_create_date_elem(start, "hr:ExpectedEndDate",
                      format_date(contract.expected_end_date[1]))
        actual == IF contract.actual_end_date # None
                    THEN update_or_create_date_elem(expect, "hr:ActualEndDate",
                             format_date(contract.actual_end_date[1]))
                    ELSE expect
        fmin   == update_or_create_date_elem(actual, "hr:FlexibilityMinDate",
                      format_date(contract.flex_min_date[1]))
        fmax   == update_or_create_date_elem(fmin, "hr:FlexibilityMaxDate",
                      format_date(contract.flex_max_date[1]))
    IN  IF idx = 0 THEN contract
        ELSE [contract EXCEPT
                 !.original_tree.assignments[idx].AssignmentDateRange = Some(fmax)]

\* write_xml: the bytes of the document.  ElementTree declares, on the root,
\* the registered prefix of every namespace a qualified tag uses (all tags of
\* a packet are in the hr namespace), and then writes the attributes of the
\* root as they were set; the indentation only adds whitespace.
write_xml(tree) ==
    [encoding |-> "ISO-8859-1",
     root_attrib |-> <<"xmlns:hr">> \o tree.attrib,
     tree |-> tree]

\* ET.fromstring on the bytes of a written update packet: the document is
\* not well-formed (ParseError: duplicate attribute) when the root carries
\* the same attribute twice
fromstring(xml_content) ==
    LET attrs      == xml_content.root_attrib
        assignment == xml_content.tree.Body.Assignment
    IN  IF \E i, j \in 1..Len(attrs) : i # j /\ attrs[i] = attrs[j]
          THEN [wellformed |-> FALSE, assignments |-> <<>>]
          ELSE [wellformed |-> TRUE,
                assignments |->
                    <<[ns |-> NAMESPACES_hr,
                       AssignmentId |-> Some(assignment.AssignmentId),
                       StaffingSupplierId |-> Some(assignment.StaffingSupplierId),
                       AssignmentDateRange |->
                           Some(assignment.AssignmentDateRange)]>>]

\* What the schema library does when called: it returns, raises its own
\* XMLSchemaException (an invalid schema, a document the schema rejects), or
\* raises something else (an unreadable file).
Outcomes == {"ok", "XMLSchemaException", "Exception"}

\* validate_xml_schema that takes a missing schema for a failure
validate_xml_schema_strict(xsd_exists, schema_outcome, validate_outcome) ==
    IF ~xsd_exists
      THEN [result |-> <<FALSE, Some(<<"Erreur de validation">>)>>,
            calls |-> <<"exists">>]
    ELSE IF schema_outcome # "ok"
      THEN [result |-> <<FALSE, Some(<<"Erreur de validation">>)>>,
            calls |-> <<"exists", "XMLSchema">>]
    ELSE [result |-> IF validate_outcome = "ok" THEN <<TRUE, None>>
                     ELSE <<FALSE, Some(<<"Erreur de validation">>)>>,
          calls |-> <<"exists", "XMLSchema", "validate">>]

\* validate_xml_schema: result is the pair (valid, message) it returns, calls
\* the library calls it made.  xsd_exists is what xsd_path.exists() answers,
\* schema_outcome what xmlschema.XMLSchema(...) does and validate_outcome
\* what schema.validate(xml_path) does.
validate_xml_schema(xsd_exists, schema_outcome, validate_outcome) ==
    LET failure(outcome) ==
            IF outcome = "XMLSchemaException"
              THEN <<FALSE, Some(<<ERROR_MESSAGES.validation_error>>)>>
              ELSE <<FALSE, Some(<<"Erreur de validation">>)>>
    IN  IF ~xsd_exists
          THEN [result |-> <<TRUE, None>>, calls |-> <<"exists">>]
        ELSE IF schema_outcome # "ok"
          THEN [result |-> failure(schema_outcome),
                calls |-> <<"exists", "XMLSchema">>]
        ELSE IF validate_outcome # "ok"
          THEN [result |-> failure(validate_outcome),
                calls |-> <<"exists", "XMLSchema", "validate">>]
        ELSE [result |-> <<TRUE, None>>,
              calls |-> <<"exists", "XMLSchema", "validate">>]

-----------------------------------------------------------------------------
(* app.py: the Streamlit session *)

\* A file name is <<lead, stem, digits, tag, ext, trail>>: the name is their
\* concatenation.  DigitRuns are the parts that \d+ matches.
DigitRuns == {"1", "12345"}

\* re.match(r'ASS_\d+_A_ETT\.xml', filename): the pattern is matched at the
\* start of the name and need not reach its end
validate_filename(filename) ==
    /\ filename[1] = ""
    /\ filename[2] = "ASS_"
    /\ filename[3] \in DigitRuns
    /\ filename[4] = "_A_ETT"
    /\ filename[5] = ".xml"

\* process_uploaded_file: [success, error] or [success, contract]
process_uploaded_file(uploaded_file) ==
    LET parsed   == parse_contract_xml(uploaded_file.content, uploaded_file.name)
        contract == parsed.contract
        checked  == app_validate_date_coherence(contract.start_date[1],
                        contract.expected_end_date[1], contract.actual_end_date)
    IN  IF ~validate_filename(uploaded_file.name)
          THEN [success |-> FALSE,
                error |-> <<ERROR_MESSAGES.invalid_file_format>>]
        ELSE IF ~parsed.ok
          THEN [success |-> FALSE, error |-> parsed.error]
        ELSE IF /\ contract.start_date # None
                /\ contract.expected_end_date # None
                /\ ~checked[1]
          THEN [success |-> FALSE, error |-> checked[2]]
        ELSE [success |-> TRUE, contract |-> contract]

\* add_message: one log entry (its clock time is not modelled)
message(text, msg_type) == [type |-> msg_type, message |-> text]

\* a load loop that gives up at the first file that fails
RECURSIVE load_files_until_failure(_, _)
load_files_until_failure(uploaded_files, i) ==
    IF i > Len(uploaded_files) THEN <<<<>>, <<>>>>
    ELSE LET file   == uploaded_files[i]
             result == process_uploaded_file(file)
             rest   == load_files_until_failure(uploaded_files, i + 1)
         IN  IF result.success
               THEN <<<<result.contract>> \o rest[1],
                      <<message(<<file.name, <<"charge avec succes">>>>,
                                "success")>> \o rest[2]>>
               ELSE <<<<>>, <<message(<<file.name, result.error>>, "error")>>>>

\* the loop of the load button over the files [i..]: (contracts, messages)
RECURSIVE load_files(_, _)
load_files(uploaded_files, i) ==
    IF i > Len(uploaded_files) THEN <<<<>>, <<>>>>
    ELSE LET file   == uploaded_files[i]
             result == process_uploaded_file(file)
             rest   == load_files(uploaded_files, i + 1)
         IN  IF result.success
               THEN <<<<result.contract>> \o rest[1],
                      <<message(<<file.name, <<"charge avec succes">>>>,
                                "success")>> \o rest[2]>>
               ELSE <<rest[1],
                      <<message(<<file.name, result.error>>, "error")>>
                          \o rest[2]>>

\* the "Charger les fichiers" button
Load(uploaded_files) ==
    /\ Len(uploaded_files) > 0
    /\ Len(messages) + Len(uploaded_files) <= MaxMessages
    /\ contracts' = load_files(uploaded_files, 1)[1]
    /\ messages' = messages \o load_files(uploaded_files, 1)[2]
    /\ generated_files' = <<>>
    /\ UNCHANGED call

\* the "Reinitialiser" button
Reset ==
    /\ contracts' = <<>>
    /\ messages' = <<>>
    /\ generated_files' = <<>>
    /\ UNCHANGED call

\* a record the edit tab renders without an exception
Complete(contract) ==
    contract.start_date # None /\ contract.expected_end_date # None

\* an edit loop that recomputes the window only when the expected end moves
edit_contract_end_only(contract, new_start, new_expected_end, new_actual_end) ==
    LET flex == calc_flex_range(new_start[1], new_expected_end[1])
    IN  IF new_expected_end # contract.expected_end_date
          THEN [contract EXCEPT !.start_date = new_start,
                                !.expected_end_date = new_expected_end,
                                !.flex_min_date = Some(flex[1]),
                                !.flex_max_date = Some(flex[2]),
                                !.actual_end_date = new_actual_end]
          ELSE [contract EXCEPT !.start_date = new_start,
                                !.actual_end_date = new_actual_end]

\* the body of the edit loop for one record, given what its widgets return
edit_contract(contract, new_start, new_expected_end, new_actual_end) ==
    LET flex == calc_flex_range(new_start[1], new_expected_end[1])
    IN  IF \/ new_start # contract.start_date
           \/ new_expected_end # contract.expected_end_date
          THEN [contract EXCEPT !.start_date = new_start,
                                !.expected_end_date = new_expected_end,
                                !.flex_min_date = Some(flex[1]),
                                !.flex_max_date = Some(flex[2]),
                                !.actual_end_date = new_actual_end]
          ELSE [contract EXCEPT !.actual_end_date = new_actual_end]

\* One run of main() in which the widgets of record idx return new_start,
\* new_expected_end and new_actual_end (None: box not ticked), the widgets of
\* the other records returning the records' own values.  A date widget
\* returns None only while its record has no date.  The run raises, leaving
\* the records as they are, at the first record whose dates are not both set.
Edit(idx, new_start, new_expected_end, new_actual_end) ==
    /\ idx \in 1..Len(contracts)
    /\ new_start = None => contracts[idx].start_date = None
    /\ new_expected_end = None => contracts[idx].expected_end_date = None
    /\ contracts' =
          IF /\ \A j \in 1..(idx - 1) : Complete(contracts[j])
             /\ new_start # None /\ new_expected_end # None
            THEN [contracts EXCEPT ![idx] =
                     edit_contract(@, new_start, new_expected_end,
                                   new_actual_end)]
            ELSE contracts
    /\ generated_files' = <<>>
    /\ UNCHANGED <<messages, call>>

\* generate_output_filename: the template, its timestamp (utcnow, to the
\* second) an opaque part of the name
generate_output_filename(file_type) ==
    IF file_type = "SA"
      THEN <<"", "ASS_", "{timestamp}", "_SA_ETT", ".xml", "">>
      ELSE <<"", "ASS_", "{timestamp}", "_AU_ETT", ".xml", "">>

\* the body of the generation loop: the idx-th selected entry is built from
\* st.session_state.contracts[idx]
generate_file(idx, generate_type, flex_date, is_delete) ==
    IF generate_type = "AU"
      THEN [filename |-> generate_output_filename("AU"),
            tree |-> build_au_packet(contracts[idx])]
      ELSE [filename |-> generate_output_filename("SA"),
            tree |-> build_staffing_action(contracts[idx],
                        IF ~is_delete THEN Some(format_date(flex_date))
                        ELSE None,
                        is_delete)]

\* the generation loop over the selected entries [idx..]:
\* (generated_files, messages)
RECURSIVE generate_files(_, _, _, _, _)
generate_files(contracts_to_generate, idx, generate_type, flex_date, is_delete) ==
    IF idx > Len(contracts_to_generate) THEN <<<<>>, <<>>>>
    ELSE LET rest == generate_files(contracts_to_generate, idx + 1,
                                    generate_type, flex_date, is_delete)
         IN  <<<<generate_file(idx, generate_type, flex_date, is_delete)>>
                   \o rest[1],
               <<message(<<generate_output_filename(generate_type),
                           <<"genere">>>>, "success")>> \o rest[2]>>

\* The "Generer les fichiers" button.  contracts_to_generate is the selection
\* (indices of the chosen options, in the order chosen).  The generation tab
\* is reached only when the edit tab rendered every record.
Generate(contracts_to_generate, generate_type, flex_date, is_delete) ==
    /\ Len(contracts) > 0
    /\ \A j \in 1..Len(contracts) : Complete(contracts[j])
    /\ Len(messages) + Len(contracts_to_generate) <= MaxMessages
    /\ generated_files' =
          generate_files(contracts_to_generate, 1, generate_type,
                         flex_date, is_delete)[1]
    /\ messages' = messages \o
          generate_files(contracts_to_generate, 1, generate_type,
                         flex_date, is_delete)[2]
    /\ UNCHANGED <<contracts, call>>

-----------------------------------------------------------------------------
(* Direct calls of the library functions: the arguments are drawn when the *)
(* call is made (Init), the action runs the function on them.              *)

NoCall == [fn |-> "none", args |-> <<>>, done |-> TRUE, ret |-> <<>>]

Pending(fn, args) == [fn |-> fn, args |-> args, done |-> FALSE, ret |-> <<>>]

Returned(fn) == call.fn = fn /\ call.done

AppUnchanged == UNCHANGED <<contracts, messages, generated_files>>

CalcFlexRangeCalls ==
    {Pending("calc_flex_range", <<start, expected_end>>) :
        start \in FlexDays, expected_end \in FlexDays}

CallCalcFlexRange ==
    /\ call.fn = "calc_flex_range" /\ ~call.done
    /\ call' = [call EXCEPT !.done = TRUE,
                            !.ret = calc_flex_range(call.args[1], call.args[2])]
    /\ AppUnchanged

ValidateDateCoherenceCalls ==
    {Pending("validate_date_coherence",
             <<start_date, expected_end_date,
               actual_end_date, flexibility_use_date>>) :
        start_date \in Days, expected_end_date \in Days,
        actual_end_date \in OptDays, flexibility_use_date \in OptDays}

CallValidateDateCoherence ==
    /\ call.fn = "validate_date_coherence" /\ ~call.done
    /\ call' = [call EXCEPT !.done = TRUE,
                            !.ret = validate_date_coherence(call.args[1],
                                        call.args[2], call.args[3], call.args[4])]
    /\ AppUnchanged

-----------------------------------------------------------------------------
(* The documents and files of the session *)

Text(day) == Some(format_date(day))

\* the children of a date-range block, from the optional text of each element
DateRange(start, expected_end, actual_end, flex_min, flex_max) ==
    (IF start = None THEN <<>> ELSE <<<<TAG_START, start[1]>>>>)
    \o (IF expected_end = None THEN <<>>
        ELSE <<<<TAG_EXPECTED_END, expected_end[1]>>>>)
    \o (IF actual_end = None THEN <<>> ELSE <<<<TAG_ACTUAL_END, actual_end[1]>>>>)
    \o (IF flex_min = None THEN <<>> ELSE <<<<TAG_FLEX_MIN, flex_min[1]>>>>)
    \o (IF flex_max = None THEN <<>> ELSE <<<<TAG_FLEX_MAX, flex_max[1]>>>>)

\* a well-formed document with one assignment
Document(assignment_id, staffing_supplier_id, children) ==
    [wellformed |-> TRUE,
     assignments |-> <<[ns |-> NAMESPACES_hr,
                        AssignmentId |-> assignment_id,
                        StaffingSupplierId |-> staffing_supplier_id,
                        AssignmentDateRange |-> Some(children)]>>]

InputName == <<"", "ASS_", "12345", "_A_ETT", ".xml", "">>

\* The documents uploaded in the session: ten days of mission without and
\* with flexibility dates of its own (and an actual end), a document without
\* a start date, and one whose start is after its expected end.
SessionDocuments ==
    {Document(Some(<<"A1">>), Some(<<"S1">>),
              DateRange(Text(0), Text(9), None, None, None)),
     Document(Some(<<"A2">>), None,
              DateRange(Text(0), Text(9), Text(10), Text(0), Text(12))),
     Document(Some(<<"A3">>), None,
              DateRange(None, Text(9), None, None, None)),
     Document(Some(<<"A4">>), None,
              DateRange(Text(5), Text(4), None, None, None))}

\* what the multiselect returns: the records of a single-file session, chosen
\* or not
Selections == {<<>>} \cup {<<i>> : i \in 1..Len(contracts)}

SessionFiles == {[name |-> InputName, content |-> d] : d \in SessionDocuments}

\* a date text strptime rejects (2024-02-30)
BadText == Some(<<2024, 2, 30>>)

\* the documents parse_contract_xml is called on
LibraryDocuments ==
    {Document(Some(<<"A1">>), Some(<<"S1">>),
              DateRange(start, expected_end, actual_end, flex_min, flex_max)) :
        start \in {None, BadText} \cup {Text(d) : d \in WidgetDays},
        expected_end \in {None} \cup {Text(d) : d \in WidgetDays},
        actual_end \in {None, Text(10)},
        flex_min \in {None} \cup {Text(d) : d \in WidgetDays},
        flex_max \in {None} \cup {Text(d) : d \in WidgetDays}}
    \cup {[wellformed |-> FALSE, assignments |-> <<>>],
          [wellformed |-> TRUE, assignments |-> <<>>]}

\* batch documents: two assignments, each with its identifier and its dates
BatchDocuments ==
    {[wellformed |-> TRUE,
      assignments |->
          Document(Some(<<"A1">>), Some(<<"S1">>),
                   DateRange(Text(0), Text(9), None, None, None)).assignments
          \o Document(Some(<<"A2">>), None,
                      DateRange(Text(start), Text(expected_end), None,
                                None, None)).assignments] :
        start \in WidgetDays, expected_end \in WidgetDays}

ParseContractXmlCalls ==
    {Pending("parse_contract_xml", <<xml_content, InputName>>) :
        xml_content \in LibraryDocuments \cup BatchDocuments}

CallParseContractXml ==
    /\ call.fn = "parse_contract_xml" /\ ~call.done
    /\ call' = [call EXCEPT !.done = TRUE,
                            !.ret = parse_contract_xml(call.args[1], call.args[2])]
    /\ AppUnchanged

\* the records the packet writers are called on (flexibility dates of any
\* value, before 2024 and past February 2024 included)
LibraryContracts ==
    {ContractData(InputName, [wellformed |-> TRUE, assignments |-> <<>>],
                  assignment_id, staffing_supplier_id, Some(start_date),
                  Some(expected_end_date), actual_end_date,
                  Some(flex_min_date), Some(flex_max_date)) :
        assignment_id \in {<<>>, <<"A1">>},
        staffing_supplier_id \in {<<>>, <<"S1">>},
        start_date \in WidgetDays, expected_end_date \in WidgetDays,
        actual_end_date \in OptWidgetDays,
        flex_min_date \in {-10, 0, 6}, flex_max_date \in {12, 22, 60}}

BuildAuPacketCalls ==
    {Pending("build_au_packet", <<contract>>) : contract \in LibraryContracts}

CallBuildAuPacket ==
    /\ call.fn = "build_au_packet" /\ ~call.done
    /\ call' = [call EXCEPT !.done = TRUE,
                            !.ret = build_au_packet(call.args[1])]
    /\ AppUnchanged

BuildStaffingActionCalls ==
    {Pending("build_staffing_action", <<contract, flexibility_date, delete>>) :
        contract \in {c \in LibraryContracts :
                         /\ c.start_date = Some(0)
                         /\ c.expected_end_date = Some(9)
                         /\ c.actual_end_date = None
                         /\ c.flex_min_date = Some(6)
                         /\ c.flex_max_date = Some(12)},
        flexibility_date \in {None} \cup {Text(d) : d \in WidgetDays},
        delete \in BOOLEAN}

CallBuildStaffingAction ==
    /\ call.fn = "build_staffing_action" /\ ~call.done
    /\ call' = [call EXCEPT !.done = TRUE,
                            !.ret = build_staffing_action(call.args[1],
                                        call.args[2], call.args[3])]
    /\ AppUnchanged

\* the coherent records an update packet is written from and read back
RoundTripContracts ==
    {c \in LibraryContracts :
        /\ c.start_date[1] <= c.expected_end_date[1]
        /\ c.actual_end_date # None =>
               /\ c.start_date[1] <= c.actual_end_date[1]
               /\ c.actual_end_date[1] <= c.flex_max_date[1]}

RoundTripCalls ==
    {Pending("round_trip", <<contract>>) : contract \in RoundTripContracts}

\* build_au_packet, write_xml, then parse_contract_xml on the bytes written
CallRoundTrip ==
    /\ call.fn = "round_trip" /\ ~call.done
    /\ call' = [call EXCEPT
                   !.done = TRUE,
                   !.ret = parse_contract_xml(
                               fromstring(write_xml(build_au_packet(call.args[1]))),
                               call.args[1].filename)]
    /\ AppUnchanged

ValidateXmlSchemaCalls ==
    {Pending("validate_xml_schema",
             <<xsd_exists, schema_outcome, validate_outcome>>) :
        xsd_exists \in BOOLEAN, schema_outcome \in Outcomes,
        validate_outcome \in Outcomes}

CallValidateXmlSchema ==
    /\ call.fn = "validate_xml_schema" /\ ~call.done
    /\ call' = [call EXCEPT !.done = TRUE,
                            !.ret = validate_xml_schema(call.args[1],
                                        call.args[2], call.args[3])]
    /\ AppUnchanged

\* the records update_contract_dates is called on: a tree with or without
\* each date element (or without a block), and fields that moved since
UpdateContracts ==
    {ContractData(InputName, root, <<"A1">>, <<>>, Some(start_date), Some(9),
                  actual_end_date, Some(7), Some(11)) :
        root \in {Document(Some(<<"A1">>), None,
                           DateRange(start, expected_end, actual_end,
                                     flex_min, flex_max)) :
                     start \in {None, Text(0)},
                     expected_end \in {None, Text(9)},
                     actual_end \in {None, Text(10)},
                     flex_min \in {None, Text(0)},
                     flex_max \in {None, Text(12)}}
                 \cup {[wellformed |-> TRUE, assignments |-> <<>>]},
        start_date \in {0, 3},
        actual_end_date \in {None, Some(10), Some(11)}}

UpdateContractDatesCalls ==
    {Pending("update_contract_dates", <<contract>>) :
        contract \in UpdateContracts}

CallUpdateContractDates ==
    /\ call.fn = "update_contract_dates" /\ ~call.done
    /\ call' = [call EXCEPT !.done = TRUE,
                            !.ret = update_contract_dates(call.args[1])]
    /\ AppUnchanged

AppValidateDateCoherenceCalls ==
    {Pending("app.validate_date_coherence",
             <<start_date, expected_end_date, actual_end_date>>) :
        start_date \in Days, expected_end_date \in Days,
        actual_end_date \in OptDays}

CallAppValidateDateCoherence ==
    /\ call.fn = "app.validate_date_coherence" /\ ~call.done
    /\ call' = [call EXCEPT !.done = TRUE,
                            !.ret = app_validate_date_coherence(call.args[1],
                                        call.args[2], call.args[3])]
    /\ AppUnchanged

\* the names validate_filename is called on: upper and lower case, other
\* action codes, no digits or a letter among them, and characters or a path
\* before or after the name
FileNames ==
    {<<lead, stem, digits, tag, ext, trail>> :
        lead \in {"", "x", "dir/"}, stem \in {"ASS_", "ass_"},
        digits \in {"", "1", "12345", "12a"},
        tag \in {"_A_ETT", "_AU_ETT", "_a_ett"},
        ext \in {".xml", ".XML", "_xml"}, trail \in {"", ".bak", "/x"}}

ValidateFilenameCalls ==
    {Pending("validate_filename", <<filename>>) : filename \in FileNames}

CallValidateFilename ==
    /\ call.fn = "validate_filename" /\ ~call.done
    /\ call' = [call EXCEPT !.done = TRUE,
                            !.ret = validate_filename(call.args[1])]
    /\ AppUnchanged

Init ==
    /\ contracts = <<>>
    /\ messages = <<>>
    /\ generated_files = <<>>
    /\ call = NoCall

InitLib ==
    /\ contracts = <<>>
    /\ messages = <<>>
    /\ generated_files = <<>>
    /\ \/ call \in CalcFlexRangeCalls
       \/ call \in ValidateDateCoherenceCalls
       \/ call \in ParseContractXmlCalls
       \/ call \in BuildAuPacketCalls
       \/ call \in BuildStaffingActionCalls
       \/ call \in AppValidateDateCoherenceCalls
       \/ call \in ValidateFilenameCalls
       \/ call \in RoundTripCalls
       \/ call \in ValidateXmlSchemaCalls
       \/ call \in UpdateContractDatesCalls

NextLib ==
    \/ CallCalcFlexRange
    \/ CallValidateDateCoherence
    \/ CallParseContractXml
    \/ CallBuildAuPacket
    \/ CallBuildStaffingAction
    \/ CallAppValidateDateCoherence
    \/ CallValidateFilename
    \/ CallRoundTrip
    \/ CallValidateXmlSchema
    \/ CallUpdateContractDates

SpecLib == InitLib /\ [][NextLib]_vars

\* The files of a batch upload: files that load, one without a start date,
\* one whose name goes on after a valid name, and one failing for each
\* reason a file can fail: its name, a document that is not well-formed, a
\* date text that is no date, incoherent dates.
OtherName == <<"", "ASS_", "1", "_A_ETT", ".xml", "">>
WrongName == <<"", "ASS_", "12345", "_AU_ETT", ".xml", "">>
LowerName == <<"", "ass_", "12345", "_a_ett", ".xml", "">>
TrailName == <<"", "ASS_", "12345", "_A_ETT", ".xml", ".xml">>

BatchFiles ==
    {[name |-> InputName, content |-> d] : d \in SessionDocuments}
    \cup {[name |-> OtherName,
           content |-> Document(Some(<<"A5">>), Some(<<"S1">>),
                                DateRange(Text(3), Text(12), None, None, None))],
          [name |-> LowerName,
           content |-> Document(Some(<<"A5">>), Some(<<"S1">>),
                                DateRange(Text(3), Text(12), None, None, None))],
          [name |-> OtherName,
           content |-> Document(Some(<<"A8">>), None,
                                DateRange(Text(6), Text(6), Text(7), None, None))],
          [name |-> TrailName,
           content |-> Document(Some(<<"A9">>), None,
                                DateRange(Text(0), Text(9), None, None, None))],
          [name |-> WrongName,
           content |-> Document(Some(<<"A6">>), None,
                                DateRange(Text(0), Text(9), None, None, None))],
          [name |-> WrongName,
           content |-> [wellformed |-> FALSE, assignments |-> <<>>]],
          [name |-> InputName,
           content |-> [wellformed |-> FALSE, assignments |-> <<>>]],
          [name |-> InputName,
           content |-> Document(Some(<<"A7">>), None,
                                DateRange(BadText, Text(9), None, None, None))]}

\* what the uploader holds when the load button is pressed
Batches ==
    {<<file>> : file \in BatchFiles}
    \cup {<<first, second>> : first \in BatchFiles, second \in BatchFiles}

\* the sidebar alone: loading batches and resetting
NextLoad ==
    \/ \E uploaded_files \in Batches : Load(uploaded_files)
    \/ Reset

SpecLoad == Init /\ [][NextLoad]_vars

\* what the multiselect returns in a session of several records: chosen
\* records (their places in the stored list), each once, in the order chosen
SelectionLists ==
    {selection \in UNION {[1..n -> 1..Len(contracts)] : n \in 0..Len(contracts)} :
        \A i, j \in 1..Len(selection) : i # j => selection[i] # selection[j]}

\* loading batches and generating from a selection, the dates left as loaded
NextGenerate ==
    \/ \E uploaded_files \in Batches : Load(uploaded_files)
    \/ Reset
    \/ \E contracts_to_generate \in SelectionLists :
          Generate(contracts_to_generate, "AU", 0, FALSE)
    \/ \E contracts_to_generate \in SelectionLists, is_delete \in BOOLEAN :
          Generate(contracts_to_generate, "SA", 9, is_delete)

SpecGenerate == Init /\ [][NextGenerate]_vars

\* one run of main(): a button, or the widgets of one record
Next ==
    \/ \E file \in SessionFiles : Load(<<file>>)
    \/ Reset
    \/ \E idx \in 1..Len(contracts), new_start \in OptWidgetDays,
          new_expected_end \in OptWidgetDays, new_actual_end \in OptWidgetDays :
          Edit(idx, new_start, new_expected_end, new_actual_end)
    \/ \E contracts_to_generate \in Selections :
          Generate(contracts_to_generate, "AU", 0, FALSE)
    \/ \E contracts_to_generate \in Selections, flex_date \in WidgetDays :
          Generate(contracts_to_generate, "SA", flex_date, FALSE)
    \/ \E contracts_to_generate \in Selections :
          Generate(contracts_to_generate, "SA", 0, TRUE)

Spec == Init /\ [][Next]_vars

-----------------------------------------------------------------------------
(* Properties of the rule engine (checked under SpecLib) *)

\* C1: for start <= expectedEnd, calc_flex_range returns flexDays = 1 for an
\* inclusive duration of 1..9, 10 from 50 days on, and in between the k with
\* 5k <= duration < 5k + 5 (the floor of duration / 5, clamped to [1, 10]);
\* flexMin = expectedEnd - flexDays and flexMax = expectedEnd + flexDays.
C1_FlexRangeFormula ==
    (Returned("calc_flex_range") /\ call.args[1] <= call.args[2]) =>
        LET duration == call.args[2] - call.args[1] + 1
            flexDays == call.ret[3]
        IN  /\ duration <= 9 => flexDays = 1
            /\ duration >= 50 => flexDays = 10
            /\ (duration >= 10 /\ duration <= 49) =>
                   (5 * flexDays <= duration /\ duration < 5 * flexDays + 5)
            /\ call.ret[1] + flexDays = call.args[2]
            /\ call.ret[2] - flexDays = call.args[2]

\* a mission of 55 days: 11 is clamped to 10
C1_Witness ==
    /\ Returned("calc_flex_range")
    /\ call.args = <<0, 54>>
    /\ call.ret = <<44, 64, 10>>

\* C2: for start <= expectedEnd, flexDays is in [1, 10] and
\* flexMin <= expectedEnd <= flexMax.
C2_FlexRangeBounds ==
    (Returned("calc_flex_range") /\ call.args[1] <= call.args[2]) =>
        /\ call.ret[3] \in 1..10
        /\ call.ret[1] <= call.args[2]
        /\ call.args[2] <= call.ret[2]

\* a mission of one day: the floor, 0, is raised to 1
C2_Witness ==
    /\ Returned("calc_flex_range")
    /\ call.args = <<3, 3>>
    /\ call.ret[3] = 1

\* the result the ordered checks of C3 prescribe
FirstViolation(start, expectedEnd, actualEnd, flexUseDate, ret) ==
    LET flex == calc_flex_range(start, expectedEnd)
        StartAfterExpectedEnd == start > expectedEnd
        ActualEndBeyondFlexMax == actualEnd # None /\ actualEnd[1] > flex[2]
        ActualEndBeforeStart == actualEnd # None /\ actualEnd[1] < start
        FlexUseDateOutOfRange ==
            /\ flexUseDate # None
            /\ (flexUseDate[1] < flex[1] \/ flexUseDate[1] > flex[2])
    IN  /\ StartAfterExpectedEnd =>
            ret = <<FALSE,
                <<"La date de debut doit etre anterieure a la date de fin prevue">>>>
        /\ (~StartAfterExpectedEnd /\ ActualEndBeyondFlexMax) =>
            ret = <<FALSE,
                <<"La date de fin reelle doit etre <= a la date de flexibilite maximale">>>>
        /\ (~StartAfterExpectedEnd /\ ~ActualEndBeyondFlexMax
                /\ ActualEndBeforeStart) =>
            ret = <<FALSE,
                <<"La date de fin reelle ne peut pas etre anterieure au debut de mission">>>>
        /\ (~StartAfterExpectedEnd /\ ~ActualEndBeyondFlexMax
                /\ ~ActualEndBeforeStart /\ FlexUseDateOutOfRange) =>
            ret = <<FALSE,
                <<"La date de souplesse doit etre entre", flex[1], flex[2]>>>>
        /\ ret = <<TRUE, None>> <=>
               ~(StartAfterExpectedEnd \/ ActualEndBeyondFlexMax
                    \/ ActualEndBeforeStart \/ FlexUseDateOutOfRange)

\* C3: validate_date_coherence returns the first violation in the order
\* (1) start > expectedEnd, (2) actualEnd > flexMax then actualEnd < start,
\* (3) flexUseDate outside [flexMin, flexMax], with flexMin and flexMax
\* computed afresh, and returns (valid, no message) exactly when there is
\* none; app.py's copy does the same without a flexibility-use date.
C3_FirstViolation ==
    /\ Returned("validate_date_coherence") =>
           FirstViolation(call.args[1], call.args[2], call.args[3],
                          call.args[4], call.ret)
    /\ Returned("app.validate_date_coherence") =>
           FirstViolation(call.args[1], call.args[2], call.args[3],
                          None, call.ret)

\* an actual end before the start and a flexibility-use date outside the
\* window: only the first of the two is reported
C3_Witness ==
    /\ Returned("validate_date_coherence")
    /\ call.args = <<3, 9, Some(0), Some(12)>>
    /\ call.ret = <<FALSE, <<MSG_ACTUAL_BEFORE_START>>>>

\* C4: when startDate and expectedEndDate are both resolvable, the record
\* parse_contract_xml returns has flexMinDate and flexMaxDate equal to
\* calc_flex_range(startDate, expectedEndDate), whatever flexibility dates the
\* document carried.
C4_ParseRecomputesFlex ==
    (/\ Returned("parse_contract_xml") /\ call.ret.ok
     /\ call.ret.contract.start_date # None
     /\ call.ret.contract.expected_end_date # None) =>
        LET contract == call.ret.contract
            flex == calc_flex_range(contract.start_date[1],
                                    contract.expected_end_date[1])
        IN  /\ contract.flex_min_date = Some(flex[1])
            /\ contract.flex_max_date = Some(flex[2])

-----------------------------------------------------------------------------
(* Properties of the packet writers (checked under SpecLib) *)

\* C9: build_staffing_action writes one payload field, ActionTypeComments,
\* which is 'delete' if and only if the delete flag is true and otherwise the
\* supplied flexibility-use date text, whether or not a date was supplied;
\* the packet carries the record's assignment id and the reason code
\* 'PilOTT:FlexibilityUseDate'.
C9_StaffingActionPayload ==
    Returned("build_staffing_action") =>
        LET contract         == call.args[1]
            flexibility_date == call.args[2]
            delete           == call.args[3]
            action           == call.ret.Body.StaffingAction
        IN  /\ DOMAIN action =
                   {"AssignmentId", "ActionReasonCode", "ActionTypeComments"}
            /\ (action.ActionTypeComments = <<"delete">>) <=> delete
            /\ ~delete =>
                   action.ActionTypeComments =
                       (IF flexibility_date = None THEN <<>>
                        ELSE flexibility_date[1])
            /\ action.AssignmentId = contract.assignment_id
            /\ action.ActionReasonCode = "PilOTT:FlexibilityUseDate"

\* no date and no delete flag: the payload is not the delete marker
C9_Witness ==
    /\ Returned("build_staffing_action")
    /\ call.args[2] = None /\ call.args[3] = FALSE
    /\ call.ret.Body.StaffingAction.ActionTypeComments = <<>>

\* C10: the update packet has an Assignment with processStatus 'update' and
\* assignmentStatus 'active' and a date-range block with StartDate,
\* ExpectedEndDate, FlexibilityMinDate and FlexibilityMaxDate always and
\* ActualEndDate if and only if the record has an actual end date; each is a
\* YYYY-MM-DD text that reads back as the record's field.
C10_UpdatePacketShape ==
    Returned("build_au_packet") =>
        LET contract   == call.args[1]
            assignment == call.ret.Body.Assignment
            children   == assignment.AssignmentDateRange
            Written(tag, field) ==
                /\ find(children, tag) # 0
                /\ IsDateText(find_text(children, tag))
                /\ parse_date(find_text(children, tag)) = field[1]
        IN  /\ assignment.processStatus = "update"
            /\ assignment.assignmentStatus = "active"
            /\ Written(TAG_START, contract.start_date)
            /\ Written(TAG_EXPECTED_END, contract.expected_end_date)
            /\ Written(TAG_FLEX_MIN, contract.flex_min_date)
            /\ Written(TAG_FLEX_MAX, contract.flex_max_date)
            /\ (find(children, TAG_ACTUAL_END) # 0) <=>
                   (contract.actual_end_date # None)
            /\ contract.actual_end_date # None =>
                   Written(TAG_ACTUAL_END, contract.actual_end_date)
            /\ Len(children) =
                   (IF contract.actual_end_date = None THEN 4 ELSE 5)

\* a record without an actual end date, its flexibility window reaching from
\* December 2023 to March 2024: four date elements, no ActualEndDate
C10_Witness ==
    /\ Returned("build_au_packet")
    /\ call.args[1].actual_end_date = None
    /\ call.args[1].flex_min_date = Some(-10)
    /\ call.args[1].flex_max_date = Some(60)
    /\ call.ret.Body.Assignment.AssignmentDateRange =
          <<<<TAG_START, format_date(call.args[1].start_date[1])>>,
            <<TAG_EXPECTED_END, format_date(call.args[1].expected_end_date[1])>>,
            <<TAG_FLEX_MIN, <<2023, 12, 22>>>>,
            <<TAG_FLEX_MAX, <<2024, 3, 1>>>>>>

\* C11: in the update packet the StaffingSupplierId element is omitted when
\* the record's staffingSupplierId is empty, and present with the record's
\* value when it is not.
C11_SupplierIdOmittedIfEmpty ==
    Returned("build_au_packet") =>
        LET contract   == call.args[1]
            assignment == call.ret.Body.Assignment
        IN  IF contract.staffing_supplier_id = <<>>
              THEN "StaffingSupplierId" \notin DOMAIN assignment
              ELSE /\ "StaffingSupplierId" \in DOMAIN assignment
                   /\ assignment.StaffingSupplierId
                          = contract.staffing_supplier_id

\* C12: validate_filename(name) is true if and only if the whole name is
\* 'ASS_' + one or more digits + '_A_ETT.xml', case-sensitive; names with
\* another action code, lower-case names and names with characters or path
\* segments before or after are rejected.
C12_FilenameWholeMatch ==
    Returned("validate_filename") =>
        LET filename == call.args[1]
        IN  call.ret <=> /\ filename[1] = ""
                         /\ filename[2] = "ASS_"
                         /\ filename[3] \in DigitRuns
                         /\ filename[4] = "_A_ETT"
                         /\ filename[5] = ".xml"
                         /\ filename[6] = ""

\* a date element whose text strptime rejects
Malformed(children, tag) ==
    find_text(children, tag) # <<>> /\ ~IsDateText(find_text(children, tag))

\* C13: when a well-formed document has a malformed date text in one date
\* field, parse_contract_xml still returns a record: that field is unset,
\* the identifier and the other mission dates are extracted as usual.
C13_MalformedDateDegrades ==
    Returned("parse_contract_xml") =>
        LET root       == call.args[1]
            date_range == find_date_range(root)
            children   == date_range[1]
            mission    == {TAG_START, TAG_EXPECTED_END, TAG_ACTUAL_END}
            field(contract, tag) ==
                CASE tag = TAG_START        -> contract.start_date
                  [] tag = TAG_EXPECTED_END -> contract.expected_end_date
                  [] tag = TAG_ACTUAL_END   -> contract.actual_end_date
        IN  (/\ root.wellformed
             /\ date_range # None
             /\ \E bad \in mission :
                   /\ Malformed(children, bad)
                   /\ \A tag \in (mission \cup {TAG_FLEX_MIN, TAG_FLEX_MAX})
                                     \ {bad} : ~Malformed(children, tag))
            => /\ call.ret.ok
               /\ call.ret.contract.assignment_id
                      = root.assignments[1].AssignmentId[1]
               /\ \A tag \in mission :
                      field(call.ret.contract, tag) =
                          IF Malformed(children, tag) THEN None
                          ELSE date_field(children, tag)

\* what a call of parse_contract_xml hands back: one ContractData, or none
\* when it raises
Records(ret) == IF ret.ok THEN <<ret.contract>> ELSE <<>>

\* C14: parsing a document with N >= 2 assignments yields N records, one per
\* assignment, in document order, each with its own identifier and dates.
C14_BatchYieldsOneRecordEach ==
    Returned("parse_contract_xml") =>
        LET root == call.args[1]
            N    == Len(root.assignments)
            recs == Records(call.ret)
        IN  (root.wellformed /\ N >= 2)
            => /\ Len(recs) = N
               /\ \A i \in 1..N :
                     LET children == root.assignments[i].AssignmentDateRange[1]
                     IN  /\ recs[i].assignment_id
                                = root.assignments[i].AssignmentId[1]
                         /\ recs[i].start_date = date_field(children, TAG_START)
                         /\ recs[i].expected_end_date
                                = date_field(children, TAG_EXPECTED_END)

\* the namespace URI of the other input scheme (HR-XML 2.x)
OTHER_NS == "http://ns.hr-xml.org/2007-04-15"

\* the tag of the other scheme with the same local name
other_tag(tag) ==
    CASE tag = TAG_START        -> "{http://ns.hr-xml.org/2007-04-15}StartDate"
      [] tag = TAG_EXPECTED_END -> "{http://ns.hr-xml.org/2007-04-15}ExpectedEndDate"
      [] tag = TAG_ACTUAL_END   -> "{http://ns.hr-xml.org/2007-04-15}ActualEndDate"
      [] tag = TAG_FLEX_MIN     -> "{http://ns.hr-xml.org/2007-04-15}FlexibilityMinDate"
      [] tag = TAG_FLEX_MAX     -> "{http://ns.hr-xml.org/2007-04-15}FlexibilityMaxDate"

\* the same content in the other scheme: the other namespace URI, the
\* identifier in a value node under AssignmentId, no supplier identifier
OtherScheme(root) ==
    [root EXCEPT !.assignments =
        [i \in 1..Len(root.assignments) |->
            LET a == root.assignments[i]
            IN  [ns |-> OTHER_NS,
                 AssignmentId |-> Some(<<>>),
                 IdValue |-> a.AssignmentId,
                 StaffingSupplierId |-> None,
                 AssignmentDateRange |->
                     IF a.AssignmentDateRange = None THEN None
                     ELSE Some([k \in 1..Len(a.AssignmentDateRange[1]) |->
                               <<other_tag(a.AssignmentDateRange[1][k][1]),
                                 a.AssignmentDateRange[1][k][2]>>])]]]

\* C15: two documents with the same content in the two namespace schemes
\* give records with equal assignmentId, startDate, expectedEndDate,
\* actualEndDate and flexibility dates.
C15_SchemesReadAlike ==
    (Returned("parse_contract_xml") /\ call.ret.ok) =>
        LET other == parse_contract_xml(OtherScheme(call.args[1]), call.args[2])
            here  == call.ret.contract
        IN  /\ other.ok
            /\ other.contract.assignment_id = here.assignment_id
            /\ other.contract.start_date = here.start_date
            /\ other.contract.expected_end_date = here.expected_end_date
            /\ other.contract.actual_end_date = here.actual_end_date
            /\ other.contract.flex_min_date = here.flex_min_date
            /\ other.contract.flex_max_date = here.flex_max_date

\* C16: for every coherent record with start and expected end set, writing
\* build_au_packet(record) with write_xml and parsing the bytes back with
\* parse_contract_xml succeeds and recovers the same assignmentId, startDate,
\* expectedEndDate, actualEndDate and flexibility dates.
C16_RoundTrip ==
    Returned("round_trip") =>
        LET contract == call.args[1]
        IN  /\ call.ret.ok
            /\ call.ret.contract.assignment_id = contract.assignment_id
            /\ call.ret.contract.start_date = contract.start_date
            /\ call.ret.contract.expected_end_date = contract.expected_end_date
            /\ call.ret.contract.actual_end_date = contract.actual_end_date
            /\ call.ret.contract.flex_min_date = contract.flex_min_date
            /\ call.ret.contract.flex_max_date = contract.flex_max_date

\* C17: validate_xml_schema returns (valid, no error) whenever no schema
\* exists at the expected place, without loading a schema or validating;
\* when the schema exists it returns valid if and only if the schema loads
\* and the validator accepts the document, and otherwise an invalid result
\* with an error message.
C17_SchemaValidationLenient ==
    Returned("validate_xml_schema") =>
        LET xsd_exists == call.args[1]
            accepted   == call.args[2] = "ok" /\ call.args[3] = "ok"
            result     == call.ret.result
            made       == {call.ret.calls[i] : i \in 1..Len(call.ret.calls)}
        IN  /\ ~xsd_exists =>
                  /\ result = <<TRUE, None>>
                  /\ "XMLSchema" \notin made /\ "validate" \notin made
            /\ xsd_exists =>
                  /\ result[1] <=> accepted
                  /\ result[1] => result[2] = None
                  /\ ~result[1] => result[2] # None

\* no schema file, although the library would have rejected the document
C17_Witness ==
    /\ Returned("validate_xml_schema")
    /\ call.args = <<FALSE, "ok", "XMLSchemaException">>
    /\ call.ret.result = <<TRUE, None>>

\* the elements of a block with that name, qualified or written with its
\* prefix
Named(children, tag) ==
    {i \in 1..Len(children) : children[i][1] \in {resolve(tag), tag}}

\* the block holds the element, once or more, always with that text
Mirrors(children, tag, value) ==
    /\ Named(children, tag) # {}
    /\ \A i \in Named(children, tag) : children[i][2] = value

\* C21: after update_contract_dates on a record whose tree has a date-range
\* block, StartDate, ExpectedEndDate, FlexibilityMinDate and
\* FlexibilityMaxDate hold the text of the record's fields, and there is an
\* ActualEndDate element, with the record's value, if and only if the record
\* has an actual end date.
C21_TreeMirrorsRecord ==
    (/\ Returned("update_contract_dates")
     /\ date_range_index(call.args[1].original_tree) # 0) =>
        LET contract == call.args[1]
            root     == call.ret.original_tree
            children == root.assignments[date_range_index(root)]
                            .AssignmentDateRange[1]
        IN  /\ Mirrors(children, "hr:StartDate",
                       format_date(contract.start_date[1]))
            /\ Mirrors(children, "hr:ExpectedEndDate",
                       format_date(contract.expected_end_date[1]))
            /\ Mirrors(children, "hr:FlexibilityMinDate",
                       format_date(contract.flex_min_date[1]))
            /\ Mirrors(children, "hr:FlexibilityMaxDate",
                       format_date(contract.flex_max_date[1]))
            /\ IF contract.actual_end_date = None
                 THEN Named(children, "hr:ActualEndDate") = {}
                 ELSE Mirrors(children, "hr:ActualEndDate",
                              format_date(contract.actual_end_date[1]))

\* C23: update_contract_dates is idempotent: applied to the record it has
\* just patched, it leaves the tree as the first application left it, also
\* when the first application had to create a date element.
C23_UpdateIdempotent ==
    Returned("update_contract_dates") =>
        update_contract_dates(call.ret).original_tree = call.ret.original_tree

-----------------------------------------------------------------------------
(* Properties of the session (checked under Spec) *)

\* the flexibility dates of a record are those of its mission dates
FreshFlex(contract) ==
    LET duration == contract.expected_end_date[1] - contract.start_date[1] + 1
        floor5   == CHOOSE k \in -(MaxDay + 1)..(MaxDay + 1) :
                        5 * k <= duration /\ duration < 5 * k + 5
        flexDays == IF floor5 < 1 THEN 1 ELSE IF floor5 > 10 THEN 10 ELSE floor5
    IN  /\ contract.flex_min_date = Some(contract.expected_end_date[1] - flexDays)
        /\ contract.flex_max_date = Some(contract.expected_end_date[1] + flexDays)

\* the file was written by build_au_packet
IsUpdatePacket(file) == file.filename[4] = "_AU_ETT"

\* the file was written by build_staffing_action
IsStaffingAction(file) == file.filename[4] = "_SA_ETT"

\* C5: every stored record with both startDate and expectedEndDate set has
\* flexMinDate = expectedEndDate - flexDays and flexMaxDate = expectedEndDate
\* + flexDays, flexDays = clamp(floor(inclusiveDuration / 5), 1, 10); so the
\* flexibility dates of a generated update packet are those computed from the
\* packet's start and expected end.
C5_StoredFlexIsFresh ==
    /\ \A i \in 1..Len(contracts) :
           Complete(contracts[i]) => FreshFlex(contracts[i])
    /\ \A k \in 1..Len(generated_files) :
           IsUpdatePacket(generated_files[k]) =>
               LET children ==
                       generated_files[k].tree.Body.Assignment.AssignmentDateRange
                   flex == calc_flex_range(
                               parse_date(find_text(children, TAG_START)),
                               parse_date(find_text(children, TAG_EXPECTED_END)))
               IN  /\ parse_date(find_text(children, TAG_FLEX_MIN)) = flex[1]
                   /\ parse_date(find_text(children, TAG_FLEX_MAX)) = flex[2]

\* C6: when the widgets of a record supply a startDate or an expectedEndDate
\* other than the record's, the record's flexMinDate and flexMaxDate after the
\* run are calc_flex_range(new startDate, new expectedEndDate).
C6_EditRecomputesFlex ==
    [][\A idx \in 1..Len(contracts) :
          (/\ Len(contracts') = Len(contracts)
           /\ Edit(idx, contracts'[idx].start_date,
                   contracts'[idx].expected_end_date,
                   contracts'[idx].actual_end_date)
           /\ \/ contracts'[idx].start_date # contracts[idx].start_date
              \/ contracts'[idx].expected_end_date
                     # contracts[idx].expected_end_date)
          => LET flex == calc_flex_range(contracts'[idx].start_date[1],
                                         contracts'[idx].expected_end_date[1])
             IN  /\ contracts'[idx].flex_min_date = Some(flex[1])
                 /\ contracts'[idx].flex_max_date = Some(flex[2])]_vars

\* a record loaded with the mission 2024-01-01..2024-01-10 and flexibility
\* dates of its own, whose start was then moved to 2024-01-07: four days of
\* mission, the window is one day either side of the expected end
C6_Witness ==
    /\ Len(contracts) = 1
    /\ find_text(contracts[1].original_tree.assignments[1].AssignmentDateRange[1],
                 TAG_FLEX_MAX) = <<2024, 1, 13>>
    /\ contracts[1].start_date = Some(6)
    /\ contracts[1].expected_end_date = Some(9)
    /\ contracts[1].flex_min_date = Some(8)
    /\ contracts[1].flex_max_date = Some(10)

\* C7: every stored record is coherent: startDate <= expectedEndDate, and
\* actualEndDate, if present, satisfies startDate <= actualEndDate <=
\* flexMaxDate; so no update packet is generated from a record violating this.
C7_StoredRecordsCoherent ==
    /\ \A i \in 1..Len(contracts) :
           Complete(contracts[i]) =>
               /\ contracts[i].start_date[1] <= contracts[i].expected_end_date[1]
               /\ contracts[i].actual_end_date # None =>
                      /\ contracts[i].start_date[1] <= contracts[i].actual_end_date[1]
                      /\ contracts[i].actual_end_date[1] <= contracts[i].flex_max_date[1]
    /\ \A k \in 1..Len(generated_files) :
           IsUpdatePacket(generated_files[k]) =>
               LET children ==
                       generated_files[k].tree.Body.Assignment.AssignmentDateRange
               IN  parse_date(find_text(children, TAG_START))
                       <= parse_date(find_text(children, TAG_EXPECTED_END))

\* C8: every staffing-action packet that records a flexibility use (delete
\* flag false) carries a date d with flexMinDate <= d <= flexMaxDate of its
\* record; a date outside the window is rejected before the packet is emitted.
C8_FlexUseDateInWindow ==
    \A k \in 1..Len(generated_files) :
        (/\ IsStaffingAction(generated_files[k])
         /\ generated_files[k].tree.Body.StaffingAction.ActionTypeComments
                # <<"delete">>) =>
            LET d == parse_date(
                    generated_files[k].tree.Body.StaffingAction.ActionTypeComments)
            IN  /\ contracts[k].flex_min_date[1] <= d
                /\ d <= contracts[k].flex_max_date[1]

\* the dates of a record pass the coherence validation of the session
Validated(start_date, expected_end_date, actual_end_date) ==
    app_validate_date_coherence(start_date, expected_end_date,
                                actual_end_date)[1]

\* C20: within a record's pipeline the dates are validated before the
\* mutation that stores them, and stored before they are serialized: a run
\* that stores a record with both mission dates stores dates that pass the
\* coherence validation, and no update packet is written from dates that do
\* not pass it.
C20_ValidatedBeforeStoredAndSerialized ==
    /\ [][\A i \in 1..Len(contracts') :
             (/\ i > Len(contracts) \/ contracts'[i] # contracts[i]
              /\ Complete(contracts'[i]))
             => Validated(contracts'[i].start_date[1],
                          contracts'[i].expected_end_date[1],
                          contracts'[i].actual_end_date)]_vars
    /\ [](\A k \in 1..Len(generated_files) :
             IsUpdatePacket(generated_files[k]) =>
                 LET children ==
                         generated_files[k].tree.Body.Assignment.AssignmentDateRange
                 IN  Validated(parse_date(find_text(children, TAG_START)),
                               parse_date(find_text(children, TAG_EXPECTED_END)),
                               date_field(children, TAG_ACTUAL_END)))

-----------------------------------------------------------------------------
(* Properties of the load button (checked under SpecLoad) *)

\* the files of a batch that process_uploaded_file accepts
Succeeded(uploaded_files) ==
    {i \in 1..Len(uploaded_files) : process_uploaded_file(uploaded_files[i]).success}

\* C18: when a batch is loaded, a file that fails (its name, a parse error,
\* incoherent dates) does not stop the others: after the load the stored
\* list holds one record per file that succeeded, in upload order, and one
\* error message was logged per file that failed.
C18_BatchLoadIsolatesFailures ==
    [][\A uploaded_files \in Batches :
          Load(uploaded_files) =>
              LET ok        == Succeeded(uploaded_files)
                  rank(i)   == Cardinality({k \in ok : k <= i})
                  logged    == SubSeq(messages', Len(messages) + 1, Len(messages'))
              IN  /\ Len(contracts') = Cardinality(ok)
                  /\ \A i \in ok :
                        contracts'[rank(i)]
                            = process_uploaded_file(uploaded_files[i]).contract
                  /\ Len(logged) = Len(uploaded_files)
                  /\ \A i \in 1..Len(uploaded_files) :
                        /\ logged[i].message[1] = uploaded_files[i].name
                        /\ (logged[i].type = "error") <=> (i \notin ok)]_vars

\* a batch whose first file has a wrong name and whose second file loads
C18_Witness ==
    /\ Len(contracts) = 1
    /\ contracts[1].assignment_id = <<"A5">>
    /\ Len(messages) = 2
    /\ messages[1].type = "error" /\ messages[1].message[1] = WrongName
    /\ messages[2].type = "success" /\ messages[2].message[1] = OtherName

\* the whole name is 'ASS_' + digits + '_A_ETT.xml'
MatchesInputPattern(filename) ==
    /\ filename[1] = "" /\ filename[2] = "ASS_" /\ filename[3] \in DigitRuns
    /\ filename[4] = "_A_ETT" /\ filename[5] = ".xml" /\ filename[6] = ""

\* C19: a file whose name does not match the input pattern is rejected with
\* the invalid-file-format message whatever its content (the content is not
\* parsed), and no record of it is stored.
C19_BadNameRejectedUnparsed ==
    [][\A uploaded_files \in Batches :
          Load(uploaded_files) =>
              LET logged == SubSeq(messages', Len(messages) + 1, Len(messages'))
              IN  \A i \in 1..Len(uploaded_files) :
                     ~MatchesInputPattern(uploaded_files[i].name) =>
                        /\ logged[i] =
                               message(<<uploaded_files[i].name,
                                         <<ERROR_MESSAGES.invalid_file_format>>>>,
                                       "error")
                        /\ \A k \in 1..Len(contracts') :
                               contracts'[k].filename # uploaded_files[i].name]_vars

\* the same, of the names validate_filename rejects: these are rejected
\* unparsed and leave no record
RejectedNameUnparsed ==
    [][\A uploaded_files \in Batches :
          Load(uploaded_files) =>
              LET logged == SubSeq(messages', Len(messages) + 1, Len(messages'))
              IN  \A i \in 1..Len(uploaded_files) :
                     ~validate_filename(uploaded_files[i].name) =>
                        /\ logged[i] =
                               message(<<uploaded_files[i].name,
                                         <<ERROR_MESSAGES.invalid_file_format>>>>,
                                       "error")
                        /\ \A k \in 1..Len(contracts') :
                               contracts'[k].filename # uploaded_files[i].name]_vars

-----------------------------------------------------------------------------
(* Properties of the generation tab (checked under SpecGenerate) *)

\* the assignment id a generated packet carries
PacketAssignmentId(file) ==
    IF IsUpdatePacket(file) THEN file.tree.Body.Assignment.AssignmentId
    ELSE file.tree.Body.StaffingAction.AssignmentId

\* C22: for every selection of loaded records, the k-th generated file
\* carries the assignment id (and, an update packet, the dates) of the k-th
\* selected record; no packet comes from a record that was not selected.
C22_PacketsFromSelectedRecords ==
    [][\A contracts_to_generate \in SelectionLists :
          \A generate_type \in {"AU", "SA"}, is_delete \in BOOLEAN :
             Generate(contracts_to_generate, generate_type, 9, is_delete) =>
                /\ Len(generated_files') = Len(contracts_to_generate)
                /\ \A k \in 1..Len(contracts_to_generate) :
                      LET selected == contracts[contracts_to_generate[k]]
                      IN  /\ PacketAssignmentId(generated_files'[k])
                                 = selected.assignment_id
                          /\ IsUpdatePacket(generated_files'[k]) =>
                                 generated_files'[k].tree.Body.Assignment
                                     .AssignmentDateRange
                                 = au_date_range(selected)]_vars

=============================================================================
